---- MODULE Spec2Model ----
(***************************************************************************)
(* Model of two renderer components of chaiNNer:                           *)
(*   - RepresentativeNode (NodeSelectorPanel/RepresentativeNode.tsx), a    *)
(*     palette tile with a hover state and a favorite star;                *)
(*   - NodeInputs / pickInput (node/NodeInputs.tsx), the dispatcher that   *)
(*     maps a node's input descriptors to input widgets.                   *)
(* Spec       is the state machine of the palette tiles.                   *)
(* SpecInputs is the state machine of one mounted NodeInputs component.    *)
(***************************************************************************)
EXTENDS Integers, Sequences, FiniteSets, TLC

VARIABLES
    favorites,   \* the set held by the useNodeFavorites hook
    schemaId,    \* tile -> schemaId prop
    collapsed,   \* tile -> collapsed prop of the tile's last render
    hover,       \* tile -> the useState hover flag
    isFavorite,  \* tile -> favorites.has(schemaId) as computed by the last render
    view,        \* tile -> what the last render put on screen (heading, star)
    lastCall,    \* history: the last addFavorites / removeFavorite call
    parity,      \* history: flips on every click of a star
    lastMouse,   \* history: tile -> last mouse event delivered to the tile
    props,       \* NodeInputs: the props of the mounted component
    memo,        \* NodeInputs: the useCallback cell (deps, callback)
    rendered     \* NodeInputs: the elements returned by the last render

tileVars  == <<favorites, schemaId, collapsed, hover, isFavorite, view,
               lastCall, parity, lastMouse>>
inputVars == <<props, memo, rendered>>
vars      == <<tileVars, inputVars>>

-----------------------------------------------------------------------------
(* RepresentativeNode *)

Tiles     == {"tileA", "tileB"}
SchemaIds == {"chainner:image:load", "chainner:image:save"}

\* name prop of the tile showing a schema
NameOf(s) == IF s = "chainner:image:load" THEN "Load Image" ELSE "Save Image"

\* name.toUpperCase()
toUpperCase(n) ==
    CASE n = "Load Image" -> "LOAD IMAGE"
      [] n = "Save Image" -> "SAVE IMAGE"
      [] OTHER -> n

NoCall == [op |-> "none", schemaId |-> "none", tile |-> "none", before |-> {}]

\* the operations of the useNodeFavorites hook, on the hook's set
addFavorites(favs, s)   == favs \cup {s}
removeFavorite(favs, s) == favs \ {s}

\* const isFavorite = favorites.has(schemaId)
ReadFavorite(favs, s) == s \in favs

\* variant: the star faded like the settings icon, by hover alone
StarOpacityHoverOnly(fav, h) == IF h THEN 100 ELSE 0

\* opacity={isFavorite || hover ? '100%' : '0%'}
StarOpacity(fav, h) == IF fav \/ h THEN 100 ELSE 0

\* color={isFavorite ? 'yellow.500' : bgColor}
StarColor(fav) == IF fav THEN "yellow.500" ELSE "bgColor"

\* variant: heading and star drawn whatever collapsed is
ShowDetailsAlways(c) == TRUE

\* {!collapsed && ( <Flex> heading, star </Flex> )}
ShowDetails(c) == ~c

\* the JSX returned by one call of the component function
RenderTile(s, c, fav, h) ==
    IF ShowDetails(c)
    THEN [heading |-> toUpperCase(NameOf(s)), star |-> TRUE,
          color |-> StarColor(fav), opacity |-> StarOpacity(fav, h)]
    ELSE [heading |-> "none", star |-> FALSE, color |-> "none", opacity |-> 0]

\* variant: un-favoriting empties the set
onClickClearing(t) ==
    IF isFavorite[t]
    THEN [op |-> "remove", favs |-> {}]
    ELSE [op |-> "add", favs |-> addFavorites(favorites, schemaId[t])]

\* onClick of the StarIcon: the closure of the tile's last render
onClick(t) ==
    IF isFavorite[t]
    THEN [op |-> "remove", favs |-> removeFavorite(favorites, schemaId[t])]
    ELSE [op |-> "add", favs |-> addFavorites(favorites, schemaId[t])]

\* The component function runs again for tile t: its state hook gives h, the
\* favorites hook gives the current set, the parent gives the collapsed prop c.
Rerender(t, c, h) ==
    /\ collapsed' = [collapsed EXCEPT ![t] = c]
    /\ isFavorite' = [isFavorite EXCEPT ![t] = ReadFavorite(favorites, schemaId[t])]
    /\ view' = [view EXCEPT ![t] =
                   RenderTile(schemaId[t], c, ReadFavorite(favorites, schemaId[t]), h)]

\* setHover(v) from a mouse handler: React re-renders the tile when the state
\* value changes and bails out when it does not.
SetHover(t, v) ==
    /\ hover' = [hover EXCEPT ![t] = v]
    /\ IF hover[t] # v
       THEN Rerender(t, collapsed[t], v)
       ELSE UNCHANGED <<collapsed, isFavorite, view>>

InitTiles ==
    /\ favorites \in SUBSET SchemaIds
    /\ schemaId \in [Tiles -> SchemaIds]
    /\ collapsed \in [Tiles -> BOOLEAN]
    /\ hover = [t \in Tiles |-> FALSE]
    /\ isFavorite = [t \in Tiles |-> ReadFavorite(favorites, schemaId[t])]
    /\ view = [t \in Tiles |->
                  RenderTile(schemaId[t], collapsed[t],
                             ReadFavorite(favorites, schemaId[t]), FALSE)]
    /\ lastCall = NoCall
    /\ parity = 0
    /\ lastMouse = [t \in Tiles |-> "none"]

\* A re-render of tile t started by its parent or by a change of the hook's
\* value; the parent may pass a new collapsed prop. The component does not
\* start this render itself: when it follows a change of favorites is up to the
\* hook and to React, so it is a step of its own and a tile may handle events
\* with the closures of a render that is older than the hook's set.
Render(t, c) ==
    /\ Rerender(t, c, hover[t])
    /\ UNCHANGED <<favorites, schemaId, hover, lastCall, parity, lastMouse>>

MouseEnter(t) ==
    /\ SetHover(t, TRUE)
    /\ lastMouse' = [lastMouse EXCEPT ![t] = "enter"]
    /\ UNCHANGED <<favorites, schemaId, lastCall, parity>>

MouseLeave(t) ==
    /\ SetHover(t, FALSE)
    /\ lastMouse' = [lastMouse EXCEPT ![t] = "leave"]
    /\ UNCHANGED <<favorites, schemaId, lastCall, parity>>

\* a click on the star of tile t; the star exists only if the last render drew it
Click(t) ==
    /\ view[t].star
    /\ favorites' = onClick(t).favs
    /\ lastCall' = [op |-> onClick(t).op, schemaId |-> schemaId[t], tile |-> t,
                    before |-> favorites]
    /\ parity' = 1 - parity
    /\ UNCHANGED <<schemaId, collapsed, hover, isFavorite, view, lastMouse>>

-----------------------------------------------------------------------------
(* NodeInputs *)

MaxInputs == 2

RecognizedTags ==
    {"file::image", "file::pth", "file::video", "file::directory", "file::bin",
     "file::param", "text::any", "textarea::note", "dropdown::str",
     "dropdown::image-extensions", "dropdown::math-operations",
     "dropdown::generic", "number::any", "number::slider"}
UnknownTags == {"path", "number::integer"}
TypeTags    == RecognizedTags \cup UnknownTags

NodeIds   == {"node-1", "node-2"}
InputIds  == {0, 1}
Values    == {"a", "b"}
InputData == [InputIds -> Values]

\* The Input descriptors of the node schemas: one per type tag. The inputs fed
\* by a file or a path are input 0 and have a handle, the others are input 1.
HandleTags == {"file::image", "file::pth", "file::video", "file::directory",
               "file::bin", "file::param", "path"}
Descriptor(ty) ==
    IF ty \in HandleTags
    THEN [id |-> 0, type |-> ty, label |-> "Image", hasHandle |-> TRUE]
    ELSE [id |-> 1, type |-> ty, label |-> "Scale", hasHandle |-> FALSE]
Inputs == {Descriptor(ty) : ty \in TypeTags}

RECURSIVE SeqsUpTo(_, _)
SeqsUpTo(S, n) ==
    IF n = 0 THEN {<<>>}
    ELSE SeqsUpTo(S, n - 1) \cup [1..n -> S]

\* the schema and the category colour of the two nodes
SchemaOf(id) == IF id = "node-1" THEN "chainner:image:resize" ELSE "chainner:image:blur"
AccentOf(id) == IF id = "node-1" THEN "#C53030" ELSE "#319795"

\* the input data of a node that was just created
DefaultData == [i \in InputIds |-> "a"]

\* NodeInputsProps of a node that was just created; an optional prop is <<>>
\* when omitted and <<v>> when given
NodeInputsProps ==
    {[inputs |-> ins, id |-> n, inputData |-> DefaultData, accentColor |-> AccentOf(n),
      isLocked |-> <<>>, schemaId |-> SchemaOf(n)] :
        ins \in SeqsUpTo(Inputs, MaxInputs), n \in NodeIds}

\* variant: file::directory handled like the other file tags
InputTypeDirectoryAsFile(type) ==
    CASE type \in {"file::image", "file::pth", "file::video", "file::bin",
                   "file::param", "file::directory"} -> "FileInput"
      [] type = "text::any" -> "TextInput"
      [] type = "textarea::note" -> "TextAreaInput"
      [] type \in {"dropdown::str", "dropdown::image-extensions",
                   "dropdown::math-operations", "dropdown::generic"} -> "DropDownInput"
      [] type = "number::any" -> "NumberInput"
      [] type = "number::slider" -> "SliderInput"
      [] OTHER -> "GenericInput"

\* the switch of pickInput: the component chosen for a type tag
InputType(type) ==
    CASE type \in {"file::image", "file::pth", "file::video", "file::bin",
                   "file::param"} -> "FileInput"
      [] type = "file::directory" -> "DirectoryInput"
      [] type = "text::any" -> "TextInput"
      [] type = "textarea::note" -> "TextAreaInput"
      [] type \in {"dropdown::str", "dropdown::image-extensions",
                   "dropdown::math-operations", "dropdown::generic"} -> "DropDownInput"
      [] type = "number::any" -> "NumberInput"
      [] type = "number::slider" -> "SliderInput"
      [] OTHER -> "GenericInput"

\* the cases of the switch that break (every case but default)
IsCase(type) ==
    type \in {"file::image", "file::pth", "file::video", "file::directory",
              "file::bin", "file::param", "text::any", "textarea::note",
              "dropdown::str", "dropdown::image-extensions",
              "dropdown::math-operations", "dropdown::generic", "number::any",
              "number::slider"}

\* key={`${props.id}-${props.inputId}`}
Key(p) == <<p.id, "-", p.inputId>>

\* variant: the default branch passes the label too
pickInputAlwaysLabel(type, p) ==
    [container |-> [hasHandle |-> p.hasHandle, id |-> p.id, inputId |-> p.inputId,
                    key |-> Key(p), label |-> <<p.label>>],
     widget |-> InputType(type), props |-> p]

\* pickInput: the element returned for a type tag and the widget's props
pickInput(type, p) ==
    IF IsCase(type)
    THEN [container |-> [hasHandle |-> p.hasHandle, id |-> p.id,
                         inputId |-> p.inputId, key |-> Key(p),
                         label |-> <<p.label>>],
          widget |-> InputType(type), props |-> p]
    ELSE [container |-> [hasHandle |-> p.hasHandle, id |-> p.id,
                         inputId |-> p.inputId, key |-> Key(p), label |-> <<>>],
          widget |-> "GenericInput", props |-> p]

\* isLocked ?? false
NullishFalse(opt) == IF opt = <<>> THEN FALSE ELSE opt[1]

\* variant: an omitted isLocked locks the widget
FullInputPropsLockTrue(input, p, cb) ==
    [id |-> p.id, inputId |-> input.id, type |-> input.type, label |-> input.label,
     hasHandle |-> input.hasHandle, inputData |-> p.inputData, useInputData |-> cb,
     accentColor |-> p.accentColor,
     isLocked |-> IF p.isLocked = <<>> THEN TRUE ELSE p.isLocked[1],
     schemaId |-> p.schemaId]

\* const props: FullInputProps = { ...input, id, inputId: input.id, ... }
FullInputProps(input, p, cb) ==
    [id |-> p.id, inputId |-> input.id, type |-> input.type, label |-> input.label,
     hasHandle |-> input.hasHandle, inputData |-> p.inputData, useInputData |-> cb,
     accentColor |-> p.accentColor, isLocked |-> NullishFalse(p.isLocked),
     schemaId |-> p.schemaId]

\* the callback created by a render: (inputId) => useInputDataContext(id, inputId, inputData)
\* is the pair of values it closes over
Callback(p) == [id |-> p.id, inputData |-> p.inputData]

\* variant: inputData left out of the dependency list
DepsIdOnly(p) == <<"useInputDataContext", p.id>>

\* the dependency list [useInputDataContext, id, inputData]
Deps(p) == <<"useInputDataContext", p.id, p.inputData>>

\* useCallback: the cell keeps the callback of an earlier render while the
\* dependencies are the same
useCallback(cell, p) ==
    IF cell # <<>> /\ cell[1].deps = Deps(p)
    THEN cell
    ELSE <<[deps |-> Deps(p), fn |-> Callback(p)]>>

\* inputs.map((input) => pickInput(input.type, props))
inputsMap(p, cb) ==
    [k \in 1..Len(p.inputs) |->
        pickInput(p.inputs[k].type, FullInputProps(p.inputs[k], p, cb))]

\* the arguments a callback hands to the context's useInputData
useInputData(cb, inputId) == <<cb.id, inputId, cb.inputData>>

\* the context's useInputData(id, inputId, inputData): the value read and the
\* node data a write of v produces
useInputDataContext(args) ==
    [value |-> args[3][args[2]],
     write |-> [v \in Values |->
                   [id |-> args[1], inputData |-> [args[3] EXCEPT ![args[2]] = v]]]]

\* one run of the NodeInputs function with props p
RenderInputs(p) ==
    /\ props' = p
    /\ memo' = useCallback(memo, p)
    /\ rendered' = inputsMap(p, useCallback(memo, p)[1].fn)

InitInputs ==
    /\ props \in NodeInputsProps
    /\ memo = useCallback(<<>>, props)
    /\ rendered = inputsMap(props, memo[1].fn)

\* widget k calls its accessor with inputId and sets the value v; the node's
\* data changes in the global state and the parent renders NodeInputs again
SetInputData(k, inputId, v) ==
    /\ k \in 1..Len(rendered)
    /\ LET acc == useInputDataContext(useInputData(rendered[k].props.useInputData, inputId))
       IN /\ acc.write[v].id = props.id
          /\ RenderInputs([props EXCEPT !.inputData = acc.write[v].inputData])

\* the parent renders NodeInputs again with another isLocked prop
SetLocked(l) ==
    /\ l # props.isLocked
    /\ RenderInputs([props EXCEPT !.isLocked = l])

-----------------------------------------------------------------------------
(* Specifications *)

\* the tiles, with one NodeInputs component left as mounted
Init ==
    /\ InitTiles
    /\ props = [inputs |-> <<>>, id |-> "node-1", inputData |-> DefaultData,
                accentColor |-> AccentOf("node-1"), isLocked |-> <<>>,
                schemaId |-> SchemaOf("node-1")]
    /\ memo = useCallback(<<>>, props)
    /\ rendered = inputsMap(props, memo[1].fn)

Next ==
    \/ \E t \in Tiles, c \in BOOLEAN : Render(t, c) /\ UNCHANGED inputVars
    \/ \E t \in Tiles : MouseEnter(t) /\ UNCHANGED inputVars
    \/ \E t \in Tiles : MouseLeave(t) /\ UNCHANGED inputVars
    \/ \E t \in Tiles : Click(t) /\ UNCHANGED inputVars

Spec == Init /\ [][Next]_vars

\* one NodeInputs component, with the tiles left as first rendered
InitI ==
    /\ InitInputs
    /\ favorites = {}
    /\ schemaId = [t \in Tiles |-> "chainner:image:load"]
    /\ collapsed = [t \in Tiles |-> FALSE]
    /\ hover = [t \in Tiles |-> FALSE]
    /\ isFavorite = [t \in Tiles |-> FALSE]
    /\ view = [t \in Tiles |-> RenderTile(schemaId[t], FALSE, FALSE, FALSE)]
    /\ lastCall = NoCall
    /\ parity = 0
    /\ lastMouse = [t \in Tiles |-> "none"]

NextI ==
    \/ \E k \in 1..MaxInputs, i \in InputIds, v \in Values :
          SetInputData(k, i, v) /\ UNCHANGED tileVars
    \/ \E l \in {<<>>, <<TRUE>>, <<FALSE>>} : SetLocked(l) /\ UNCHANGED tileVars

SpecInputs == InitI /\ [][NextI]_vars

-----------------------------------------------------------------------------
(* Claims about RepresentativeNode, checked under Spec *)

Clicked == parity' # parity

C4_FavoritesFrame ==
    [][/\ ~Clicked => favorites' = favorites
       /\ Clicked =>
             \A s \in SchemaIds \ {schemaId[lastCall'.tile]} :
                 (s \in favorites') <=> (s \in favorites)]_vars

C4_Witness ==
    /\ lastCall.tile \in Tiles
    /\ \E s \in favorites : s # lastCall.schemaId
    /\ \E t \in Tiles : lastMouse[t] = "leave"

C9_CollapsedTile ==
    /\ [](\A t \in Tiles :
             collapsed[t] => ~view[t].star /\ view[t].heading = "none")
    /\ [][/\ Clicked => ~collapsed[lastCall'.tile]
          /\ \A t \in Tiles :
                (collapsed[t] /\ lastMouse'[t] # lastMouse[t]) =>
                    hover'[t] = (lastMouse'[t] = "enter")]_vars

C9_Witness ==
    \E t \in Tiles : collapsed[t] /\ hover[t] /\ lastMouse[t] = "enter" /\ parity = 1

\* C10: on an expanded tile the star has opacity 100 exactly when schemaId was
\* in favorites at the last render or the tile is hovered, hovered meaning that
\* the last mouse event was mouse-enter; the star is yellow exactly when
\* schemaId was in favorites at the last render.
C10_StarAppearance ==
    \A t \in Tiles :
        /\ hover[t] <=> lastMouse[t] = "enter"
        /\ ~collapsed[t] =>
              /\ view[t].star
              /\ view[t].opacity = 100 <=> (isFavorite[t] \/ hover[t])
              /\ view[t].color = "yellow.500" <=> isFavorite[t]

C10_Witness ==
    \E t \in Tiles :
        /\ ~collapsed[t] /\ lastMouse[t] = "leave"
        /\ isFavorite[t] /\ schemaId[t] \notin favorites
        /\ view[t].opacity = 100

-----------------------------------------------------------------------------
(* Claims about NodeInputs, checked under SpecInputs *)

\* the widget each recognized tag is to give
WidgetFor ==
    [ty \in RecognizedTags |->
        CASE ty \in {"file::image", "file::pth", "file::video", "file::bin",
                     "file::param"} -> "FileInput"
          [] ty = "file::directory" -> "DirectoryInput"
          [] ty = "text::any" -> "TextInput"
          [] ty = "textarea::note" -> "TextAreaInput"
          [] ty \in {"dropdown::str", "dropdown::image-extensions",
                     "dropdown::math-operations", "dropdown::generic"} -> "DropDownInput"
          [] ty = "number::any" -> "NumberInput"
          [] ty = "number::slider" -> "SliderInput"]

\* C1: every input with a recognized type tag is rendered as the widget of
\* that tag inside a container that carries the input's label.
C1_RecognizedTags ==
    \A k \in 1..Len(rendered) :
        props.inputs[k].type \in RecognizedTags =>
            /\ rendered[k].widget = WidgetFor[props.inputs[k].type]
            /\ rendered[k].container.label = <<props.inputs[k].label>>

C1_Witness ==
    /\ Len(rendered) >= 2
    /\ props.inputData # DefaultData
    /\ props.inputs[1].type = "file::directory"
    /\ props.inputs[2].type = "number::slider"
    /\ rendered[1].widget = "DirectoryInput"
    /\ rendered[2].widget = "SliderInput"

\* C2: every input with a type tag outside the recognized ones is rendered as
\* GenericInput inside a container without a label that still has hasHandle,
\* id and inputId.
C2_UnknownTags ==
    \A k \in 1..Len(rendered) :
        props.inputs[k].type \notin RecognizedTags =>
            /\ rendered[k].widget = "GenericInput"
            /\ rendered[k].container.label = <<>>
            /\ rendered[k].container.hasHandle = props.inputs[k].hasHandle
            /\ rendered[k].container.id = props.id
            /\ rendered[k].container.inputId = props.inputs[k].id

C2_Witness ==
    /\ Len(rendered) >= 2
    /\ props.isLocked = <<FALSE>>
    /\ props.inputs[1].type = "path"
    /\ props.inputs[2].type = "number::integer"
    /\ rendered[1].container.hasHandle
    /\ ~rendered[2].container.hasHandle

\* C5: one container per input descriptor, in the order of the list, and the
\* accessor of every widget, called with an inputId, reads and writes the value
\* of (node id, that inputId, inputData) through the context's useInputData.
C5_OnePerInputInOrder ==
    /\ Len(rendered) = Len(props.inputs)
    /\ props.inputs = <<>> => rendered = <<>>
    /\ \A k \in 1..Len(rendered) :
          /\ rendered[k].container.inputId = props.inputs[k].id
          /\ rendered[k].props.type = props.inputs[k].type
          /\ rendered[k].props.label = props.inputs[k].label
          /\ \A i \in InputIds :
                LET args == useInputData(rendered[k].props.useInputData, i) IN
                /\ args = <<props.id, i, props.inputData>>
                /\ useInputDataContext(args).value = props.inputData[i]
                /\ \A v \in Values :
                      useInputDataContext(args).write[v] =
                          [id |-> props.id,
                           inputData |-> [props.inputData EXCEPT ![i] = v]]

C5_Witness ==
    /\ Len(rendered) >= 2
    /\ rendered[1].props.type # rendered[2].props.type
    /\ rendered[1].container.inputId # rendered[2].container.inputId
    /\ props.inputData[0] # props.inputData[1]

\* C6: every widget gets id = the node's id, inputId = the descriptor's id, the
\* node's inputData, accentColor and schemaId, and isLocked = the isLocked prop
\* when it is given and FALSE when it is omitted.
C6_CommonProps ==
    \A k \in 1..Len(rendered) :
        LET p == rendered[k].props IN
        /\ p.id = props.id
        /\ p.inputId = props.inputs[k].id
        /\ p.inputData = props.inputData
        /\ p.accentColor = props.accentColor
        /\ p.schemaId = props.schemaId
        /\ props.isLocked # <<>> => p.isLocked = props.isLocked[1]
        /\ props.isLocked = <<>> => p.isLocked = FALSE

C6_Witness ==
    /\ Len(rendered) >= 2
    /\ props.isLocked = <<TRUE>>
    /\ props.id = "node-2"
    /\ props.inputData # DefaultData
    /\ rendered[1].props.isLocked

====
